---- MODULE Spec2Model ----
(***************************************************************************)
(* Health-Monitoring-System-esp32: the sensor data manager, its alarm      *)
(* evaluation, CSV logging and calibration, in the three revisions of the  *)
(* desktop application (desktop-app/main.py, testing.py, esp32_v1.0.0.py). *)
(* The revision is a variable fixed by Init, so that a property stated for *)
(* several revisions is checked against each of them.                      *)
(***************************************************************************)
EXTENDS Integers, Sequences, FiniteSets, TLC

VARIABLES
    version,            \* which revision of the application is running
    data,               \* SensorDataManager.<channel>_data, the stored text
    linear_accel,       \* SensorDataManager.linear_accel (main.py)
    alarm_thresholds,   \* SensorDataManager.alarm_thresholds
    alarms,             \* result of the last alarm evaluation
    alarm_fresh,        \* an evaluation ran after the last update/settings
    last,               \* the last update_sensor_data call and its outcome
    accel_bias,         \* SensorDataManager.accel_bias
    gyro_bias,          \* SensorDataManager.gyro_bias
    calib_file,         \* contents of calibration.json
    ctor,               \* outcome of SensorDataManager.__init__
    LOG_FILE,           \* SensorDataManager.LOG_FILE
    files,              \* the CSV files on disk, by path
    last_log_time,      \* SensorDataManager.last_log_time (<<>> is None)
    now,                \* datetime.now(), in clock ticks
    pc,                 \* position of each BLE thread inside log_data
    calib,              \* the calibrate_* call of MainProgram
    notified,           \* BLE notifications delivered so far (SpecCalib)
    ble,                \* the BLE connection loop (read_ble_data)
    ble_connected,      \* SensorDataManager.ble_connected
    main_program_window, \* the module global main_program_window (main.py)
    graph_data_points,  \* SensorDataManager.graph_data_points
    spinbox,            \* the QSpinBox widgets of the two settings dialogs
    lock,               \* SensorDataManager.lock: its holder, if any
    graph               \* MainProgram: lengths of the history lists and lines

vars == <<version, data, linear_accel, alarm_thresholds, alarms, alarm_fresh,
          last, accel_bias, gyro_bias, calib_file, ctor, LOG_FILE, files,
          last_log_time, now, pc, calib, notified, ble, ble_connected,
          main_program_window, graph_data_points, spinbox, lock, graph>>

bleVars == <<ble, ble_connected, main_program_window>>

uiVars == <<graph_data_points, spinbox, lock, graph>>

(***************************************************************************)
(* Bounds of the model.                                                    *)
(***************************************************************************)
NumThreads == 2
MaxTime == 5
TicksPerSec == 2

Threads == 1..NumThreads

(***************************************************************************)
(* Text.  A payload is the list of its comma-separated fields             *)
(* (value.split(',')); a field is a number, a non-numeric word or the      *)
(* empty string.  A stored reading is a list of such tokens as well.       *)
(***************************************************************************)
Num(n) == [kind |-> "num", v |-> n]
Word == [kind |-> "word", v |-> 0]
EmptyStr == [kind |-> "empty", v |-> 0]
Lbl(i) == [kind |-> "label", v |-> i]

NA == <<[kind |-> "na", v |-> 0]>>

Versions == {"main", "testing", "esp32"}

Channels(v) ==
    IF v = "esp32"
    THEN {"accel", "gyro", "spo2", "heart_rate", "temp", "hearttemp"}
    ELSE {"accel", "gyro", "spo2", "heart_rate", "temp", "hearttemp", "pedometer"}

AllChannels == Channels("main")

Axes == {"x", "y", "z"}

\* value.strip() leaves nothing: `if not value`
IsEmptyText(p) == p = <<EmptyStr>>

\* float(s) succeeds: s is a single numeric token
IsFloat(s) == Len(s) = 1 /\ s[1].kind = "num"

Float(s) == s[1].v

\* f"X: {x}, Y: {y}, Z: {z}"
FormatXYZ(p) == <<Lbl(1), p[1], Lbl(2), p[2], Lbl(3), p[3]>>


IsTriple(ch) == ch \in {"accel", "gyro"}

\* x, y, z = value.split(',') succeeds
Unpacks3(p) == Len(p) = 3

AllNumeric(p) == \A i \in 1..Len(p) : p[i].kind = "num"

(***************************************************************************)
(* Biases are per-axis rationals num/den (a mean is a sum over a count).   *)
(***************************************************************************)
Rat(n, d) == [num |-> n, den |-> d]
Zero == Rat(0, 1)
ZeroBias == [a \in Axes |-> Zero]
Undefined == [undefined |-> TRUE]
RatEq(a, b) == a.num * b.den = b.num * a.den

Idx(a) == CASE a = "x" -> 1 [] a = "y" -> 2 [] a = "z" -> 3

\* calculate_linear_acceleration: the vector (raw - bias - 1g on z) whose
\* magnitude, times 9.81, is stored in linear_accel.
CanCalcLinear(p, bias) == AllNumeric(p) /\ DOMAIN bias = Axes

\* the same without the 1 g taken off the z axis
linear_acceleration_with_gravity(p, bias) ==
    [a \in Axes |-> Rat(p[Idx(a)].v * bias[a].den - bias[a].num, bias[a].den)]

calculate_linear_acceleration(p, bias) ==
    [a \in Axes |->
        Rat(p[Idx(a)].v * bias[a].den - bias[a].num
                - (IF a = "z" THEN bias[a].den ELSE 0),
            bias[a].den)]

(***************************************************************************)
(* Alarm evaluation.                                                       *)
(***************************************************************************)
LowSpO2 == "Low SpO2"
LowHR == "Low Heart Rate"
HighHR == "High Heart Rate"

\* MainProgram.update_gui (main.py, esp32_v1.0.0.py): unknown readings are
\* taken as 0, the three rules are separate `if`s, a ValueError skips all.
GuiAlarmsOk(d) ==
    /\ (d["spo2"] # NA => IsFloat(d["spo2"]))
    /\ (d["heart_rate"] # NA => IsFloat(d["heart_rate"]))

GuiAlarms(d, th) ==
    LET spo2 == IF d["spo2"] # NA THEN Float(d["spo2"]) ELSE 0
        hr == IF d["heart_rate"] # NA THEN Float(d["heart_rate"]) ELSE 0
    IN  (IF spo2 < th["spo2"] THEN {LowSpO2} ELSE {})
        \cup (IF hr < th["heart_rate_low"] THEN {LowHR} ELSE {})
        \cup (IF hr > th["heart_rate_high"] THEN {HighHR} ELSE {})

\* SensorDataManager._check_alarms (testing.py): unknown readings are
\* skipped, high is an `elif` of low, a ValueError plays nothing.
CheckAlarmsOk(d) ==
    /\ (d["spo2"] # NA => IsFloat(d["spo2"]))
    /\ (d["heart_rate"] # NA => IsFloat(d["heart_rate"]))

\* the two heart-rate rules as separate `if`s
independent_hr_rules(hr, th) ==
    (IF hr < th["heart_rate_low"] THEN {LowHR} ELSE {})
    \cup (IF hr > th["heart_rate_high"] THEN {HighHR} ELSE {})

HighAfterLow(hr, th) ==
    IF hr < th["heart_rate_low"] THEN {LowHR}
    ELSE IF hr > th["heart_rate_high"] THEN {HighHR}
    ELSE {}

check_alarms(d, th) ==
    IF ~CheckAlarmsOk(d) THEN {}
    ELSE (IF d["spo2"] # NA /\ Float(d["spo2"]) < th["spo2"]
            THEN {LowSpO2} ELSE {})
         \cup (IF d["heart_rate"] # NA
                 THEN HighAfterLow(Float(d["heart_rate"]), th) ELSE {})

(***************************************************************************)
(* CSV logging.                                                            *)
(***************************************************************************)
HeaderRow == [kind |-> "header", t |-> 0]
DataRow(t) == [kind |-> "data", t |-> t]
NoFile == [exists |-> FALSE, rows |-> <<>>]

\* last_log_time is None or at least one second has elapsed
ShouldLog(llt, t) == llt = <<>> \/ t - llt[1] >= TicksPerSec

\* log_data of main.py and esp32_v1.0.0.py: append one row, no header, no
\* exception handling.
log_data_plain(fs, path, llt, t, io_ok) ==
    IF ~ShouldLog(llt, t) THEN [files |-> fs, llt |-> llt, raised |-> FALSE]
    ELSE IF ~io_ok THEN [files |-> fs, llt |-> llt, raised |-> TRUE]
    ELSE [files |-> [fs EXCEPT ![path] =
                        [exists |-> TRUE, rows |-> Append(@.rows, DataRow(t))]],
          llt |-> <<t>>, raised |-> FALSE]

\* log_data of testing.py: header when the file is new or empty, errors are
\* logged and swallowed.
log_data_testing(fs, path, llt, t, io_ok) ==
    IF ~ShouldLog(llt, t) \/ ~io_ok
    THEN [files |-> fs, llt |-> llt, raised |-> FALSE]
    ELSE LET file_exists == fs[path].exists
             hdr == IF ~file_exists \/ Len(fs[path].rows) = 0
                    THEN <<HeaderRow>> ELSE <<>>
         IN [files |-> [fs EXCEPT ![path] =
                          [exists |-> TRUE,
                           rows |-> @.rows \o hdr \o <<DataRow(t)>>]],
             llt |-> <<t>>, raised |-> FALSE]


(***************************************************************************)
(* update_sensor_data, one action per revision.                            *)
(***************************************************************************)
\* A payload the channel cannot decode: wrong arity, a non-numeric field,
\* or empty.
Malformed(ch, p) ==
    IF IsTriple(ch) THEN ~(Unpacks3(p) /\ AllNumeric(p)) ELSE ~IsFloat(p)

NoCall == [op |-> "none", ch |-> "none", malformed |-> FALSE,
           raised |-> FALSE, iofail |-> FALSE, logged |-> FALSE]

Call(ch, p, raised, iofail, logged) ==
    [op |-> "update", ch |-> ch, malformed |-> Malformed(ch, p),
     raised |-> raised, iofail |-> iofail, logged |-> logged]

calibVars == <<accel_bias, gyro_bias, calib_file, ctor, calib>>
logVars == <<files, last_log_time>>
alarmVars == <<alarms, alarm_fresh>>

\* a store that keeps only the channel just updated: the readings of the
\* other channels fall back to "N/A"
main_update_resets_others(ch, p, io_ok) ==
    /\ version = "main"
    /\ ctor = "ok"
    /\ ~Malformed(ch, p)
    /\ data' = [c \in DOMAIN data |->
                  IF c # ch THEN NA
                  ELSE IF IsTriple(ch) THEN FormatXYZ(p) ELSE p]
    /\ last' = Call(ch, p, FALSE, ~io_ok, FALSE)
    /\ alarm_fresh' = FALSE
    /\ UNCHANGED <<uiVars, bleVars, version, linear_accel, alarm_thresholds, alarms,
                   LOG_FILE, logVars, now, pc, calibVars>>

\* desktop-app/main.py: runs under the (non-reentrant) Lock, nothing is
\* caught: a bad unpack, a bad float() or a failed open() leaves through the
\* caller with whatever was assigned before it.
main_update_sensor_data(ch, p, io_ok) ==
    /\ version = "main"
    /\ ctor = "ok"
    /\ IF IsTriple(ch) /\ ~Unpacks3(p)
       THEN /\ last' = Call(ch, p, TRUE, FALSE, FALSE)
            /\ UNCHANGED <<data, linear_accel, logVars, alarm_fresh>>
       ELSE IF ch = "accel" /\ ~CanCalcLinear(p, accel_bias)
       THEN /\ data' = [data EXCEPT ![ch] = FormatXYZ(p)]
            /\ last' = Call(ch, p, TRUE, FALSE, FALSE)
            /\ alarm_fresh' = FALSE
            /\ UNCHANGED <<linear_accel, logVars>>
       ELSE LET log == log_data_plain(files, LOG_FILE, last_log_time, now, io_ok)
            IN /\ data' = [data EXCEPT ![ch] =
                              IF IsTriple(ch) THEN FormatXYZ(p) ELSE p]
               /\ linear_accel' =
                     IF ch = "accel"
                     THEN calculate_linear_acceleration(p, accel_bias)
                     ELSE linear_accel
               /\ files' = log.files
               /\ last_log_time' = log.llt
               /\ last' = Call(ch, p, log.raised, log.raised,
                               log.files # files)
               /\ alarm_fresh' = FALSE
    /\ UNCHANGED <<uiVars, bleVars, version, alarm_thresholds, alarms, LOG_FILE, now, pc,
                   calibVars>>

\* testing.py: runs under the RLock inside try/except; an empty payload
\* returns at once, a bad unpack is caught before anything is assigned,
\* then log_data and _check_alarms run.
testing_update_sensor_data(ch, p, io_ok) ==
    /\ version = "testing"
    /\ ctor = "ok"
    /\ IF IsEmptyText(p) \/ (IsTriple(ch) /\ ~Unpacks3(p))
       THEN /\ last' = Call(ch, p, FALSE, FALSE, FALSE)
            /\ UNCHANGED <<data, logVars, alarmVars>>
       ELSE LET log == log_data_testing(files, LOG_FILE, last_log_time, now, io_ok)
                d == [data EXCEPT ![ch] =
                        IF IsTriple(ch) THEN FormatXYZ(p) ELSE p]
            IN /\ data' = d
               /\ files' = log.files
               /\ last_log_time' = log.llt
               /\ last' = Call(ch, p, FALSE,
                               ShouldLog(last_log_time, now) /\ ~io_ok,
                               log.files # files)
               /\ alarms' = check_alarms(d, alarm_thresholds)
               /\ alarm_fresh' = TRUE
    /\ UNCHANGED <<uiVars, bleVars, version, linear_accel, alarm_thresholds, LOG_FILE, now, pc,
                   calibVars>>

\* esp32_v1.0.0.py: no lock.  Thread t stores the reading and evaluates the
\* rate limit of log_data; the write is a later step of the same thread.
esp32_update_sensor_data(t, ch, p) ==
    /\ version = "esp32"
    /\ pc[t] = "idle"
    /\ ch \in Channels("esp32")
    /\ IF IsTriple(ch) /\ ~Unpacks3(p)
       THEN /\ last' = Call(ch, p, TRUE, FALSE, FALSE)
            /\ UNCHANGED <<data, pc, alarm_fresh>>
       ELSE /\ data' = [data EXCEPT ![ch] =
                           IF IsTriple(ch) THEN FormatXYZ(p) ELSE p]
            /\ last' = Call(ch, p, FALSE, FALSE, FALSE)
            /\ pc' = IF ShouldLog(last_log_time, now)
                     THEN [pc EXCEPT ![t] = "log"] ELSE pc
            /\ alarm_fresh' = FALSE
    /\ UNCHANGED <<uiVars, bleVars, version, linear_accel, alarm_thresholds, alarms, LOG_FILE,
                   logVars, now, calibVars>>

\* esp32_v1.0.0.py, log_data after its `if`: open, writerow, last_log_time.
esp32_log_data_write(t, io_ok) ==
    /\ version = "esp32"
    /\ pc[t] = "log"
    /\ pc' = [pc EXCEPT ![t] = "idle"]
    /\ IF io_ok
       THEN /\ files' = [files EXCEPT ![LOG_FILE] =
                           [exists |-> TRUE,
                            rows |-> Append(@.rows, DataRow(now))]]
            /\ last_log_time' = <<now>>
            /\ last' = [last EXCEPT !.logged = TRUE]
       ELSE /\ last' = [last EXCEPT !.raised = TRUE, !.iofail = TRUE]
            /\ UNCHANGED logVars
    /\ UNCHANGED <<uiVars, bleVars, version, data, linear_accel, alarm_thresholds, alarmVars,
                   LOG_FILE, now, calibVars, notified>>

(***************************************************************************)
(* Alarm evaluation on the GUI timer, and the settings dialogs.            *)
(***************************************************************************)
\* MainProgram.update_gui, every 100 ms (main.py and esp32_v1.0.0.py)
update_gui ==
    /\ version \in {"main", "esp32"}
    /\ ctor = "ok"
    /\ alarms' = IF GuiAlarmsOk(data)
                 THEN GuiAlarms(data, alarm_thresholds) ELSE alarms
    /\ alarm_fresh' = TRUE
    /\ UNCHANGED <<uiVars, bleVars, version, data, linear_accel, alarm_thresholds, last,
                   LOG_FILE, logVars, now, pc, calibVars, notified>>

\* SettingsWindow.save_and_return (main.py, esp32_v1.0.0.py): SpO2 only
save_and_return(spo2) ==
    /\ version \in {"main", "esp32"}
    /\ ctor = "ok"
    /\ alarm_thresholds' = [alarm_thresholds EXCEPT !["spo2"] = spo2]
    /\ alarm_fresh' = FALSE
    /\ UNCHANGED <<uiVars, bleVars, version, data, linear_accel, alarms, last, LOG_FILE,
                   logVars, now, pc, calibVars, notified>>

\* SettingsWindow._save_settings (testing.py): three independent spin boxes
save_settings(spo2, lo, hi) ==
    /\ version = "testing"
    /\ ctor = "ok"
    /\ alarm_thresholds' = [spo2 |-> spo2, heart_rate_low |-> lo,
                            heart_rate_high |-> hi]
    /\ alarm_fresh' = FALSE
    /\ UNCHANGED <<uiVars, bleVars, version, data, linear_accel, alarms, last, LOG_FILE,
                   logVars, now, pc, calibVars, notified>>


(***************************************************************************)
(* The clock, and the dialogs that touch the log file.                     *)
(***************************************************************************)
Tick ==
    /\ now < MaxTime
    /\ now' = now + 1
    /\ UNCHANGED <<uiVars, bleVars, version, data, linear_accel, alarm_thresholds, alarmVars,
                   last, LOG_FILE, logVars, pc, calibVars, notified>>

Paths == {"default", "selected"}

\* SettingsWindow.select_directory / _select_directory
select_directory(path) ==
    /\ LOG_FILE' = path
    /\ UNCHANGED <<uiVars, bleVars, version, data, linear_accel, alarm_thresholds, alarmVars,
                   last, logVars, now, pc, calibVars, notified>>

\* "Clear Data": main.py and esp32_v1.0.0.py truncate the file with
\* open(LOG_FILE, "w"); testing.py removes it when it exists.
clear_data ==
    /\ files' = [files EXCEPT ![LOG_FILE] =
                    IF version = "testing" THEN NoFile
                    ELSE [exists |-> TRUE, rows |-> <<>>]]
    /\ UNCHANGED <<uiVars, bleVars, version, data, linear_accel, alarm_thresholds, alarmVars,
                   last, LOG_FILE, last_log_time, now, pc, calibVars, notified>>

(***************************************************************************)
(* Inputs.                                                                 *)
(***************************************************************************)
Triple(a, b, c) == <<Num(a), Num(b), Num(c)>>

Payloads(ch) ==
    CASE ch = "accel" -> {Triple(1, 2, 3), Triple(4, 5, 6), <<Num(1), Num(2)>>,
                          <<Word, Num(2), Num(3)>>, <<EmptyStr>>}
      [] ch = "gyro" -> {Triple(1, 2, 3), <<Num(1), Word, Num(3)>>}
      [] ch = "spo2" -> {<<Num(95)>>, <<Word>>, <<EmptyStr>>}
      [] ch = "heart_rate" -> {<<Num(70)>>, <<Num(80)>>}
      [] OTHER -> {<<Num(36)>>}

AlarmChannels == {"spo2", "heart_rate"}

AlarmPayloads(ch) ==
    CASE ch = "spo2" -> {<<Num(85)>>, <<Num(95)>>, <<Word>>}
      [] ch = "heart_rate" -> {<<Num(45)>>, <<Num(70)>>, <<Num(150)>>}
      [] OTHER -> {}

LogChannels == {"accel", "spo2"}

LogPayloads(ch) ==
    CASE ch = "accel" -> {<<Num(1), Num(2)>>}
      [] ch = "spo2" -> {<<Num(95)>>}
      [] OTHER -> {}

Spo2Choices == {0, 90}
HrChoices == {60, 100}

DefaultThresholds ==
    [spo2 |-> 90, heart_rate_low |-> 60, heart_rate_high |-> 100]

NoSum == [a \in Axes |-> 0]

NoCalib == [pc |-> "idle", ch |-> "accel", tick |-> 0, n |-> 0, sum |-> NoSum,
            k |-> 0, vsum |-> NoSum, result |-> "none", runs |-> 0]

MissingFile == [kind |-> "missing"]

\* SensorDataManager.__init__: graph_data_points
DefaultPoints(v) == IF v = "testing" THEN 100 ELSE 10

\* a QSpinBox showing value v: what was asked of it and what it holds
Shown(v) == [typed |-> v, value |-> v]

\* SensorDataManager.lock, held by nobody
FreeLock == [holder |-> 0]

\* MainProgram.__init__: the history lists are empty and no line has data.
\* main.py keeps one list of timestamps, testing.py one per graph.
Buffers == {"timestamps", "temp_timestamps", "hr_timestamps",
            "accel_timestamps", "temp_values", "hearttemp_values",
            "hr_values", "spo2_values", "accel_values"}

Lines == {"temp", "hearttemp", "hr", "spo2", "accel"}

NoGraph == [len |-> [b \in Buffers |-> 0],
            line |-> [l \in Lines |-> [x |-> 0, y |-> 0]],
            armed |-> TRUE, flip |-> FALSE, gained |-> {}]

\* no BLE thread has been started: IntroWindow before "Connect"
NoThread == [id |-> 0, pc |-> "none", running |-> TRUE, address |-> "none",
             routes |-> <<>>, wait |-> 0, attempts |-> 0, failures |-> 0,
             emitted |-> "none", stop_requested |-> FALSE, orphans |-> 0]

(***************************************************************************)
(* Spec: sensor ingestion on every channel, the clock standing still.      *)
(***************************************************************************)
InitStore ==
    /\ data = [ch \in Channels(version) |-> NA]
    /\ linear_accel = ZeroBias
    /\ alarm_thresholds = DefaultThresholds
    /\ alarms = {}
    /\ alarm_fresh = FALSE
    /\ last = NoCall
    /\ LOG_FILE = "default"
    /\ files = [f \in Paths |-> NoFile]
    /\ last_log_time = <<>>
    /\ now = 0
    /\ pc = [t \in Threads |-> "idle"]
    /\ calib = NoCalib
    /\ notified = 0
    /\ ble = NoThread
    /\ ble_connected = FALSE
    /\ main_program_window = "undefined"
    /\ graph_data_points = DefaultPoints(version)
    /\ spinbox = [spo2 |-> Shown(DefaultThresholds.spo2),
                  points |-> Shown(DefaultPoints(version))]
    /\ lock = FreeLock
    /\ graph = NoGraph

\* The state after SensorDataManager.__init__ found no calibration file.
Init ==
    /\ version \in Versions
    /\ InitStore
    /\ accel_bias = ZeroBias
    /\ gyro_bias = ZeroBias
    /\ calib_file = MissingFile
    /\ ctor = "ok"

Next ==
    \/ \E ch \in Channels(version) : \E p \in Payloads(ch) : \E io_ok \in BOOLEAN :
          main_update_sensor_data(ch, p, io_ok) /\ UNCHANGED notified
    \/ \E ch \in Channels(version) : \E p \in Payloads(ch) : \E io_ok \in BOOLEAN :
          testing_update_sensor_data(ch, p, io_ok) /\ UNCHANGED notified
    \/ \E ch \in Channels(version) : \E p \in Payloads(ch) :
          esp32_update_sensor_data(1, ch, p) /\ UNCHANGED notified
    \/ \E io_ok \in BOOLEAN : esp32_log_data_write(1, io_ok)

Spec == Init /\ [][Next]_vars

(***************************************************************************)
(* SpecAlarm: the vital-sign channels, the alarm evaluation and the        *)
(* threshold settings.                                                     *)
(***************************************************************************)
NextAlarm ==
    \/ \E ch \in AlarmChannels : \E p \in AlarmPayloads(ch) :
          main_update_sensor_data(ch, p, TRUE) /\ UNCHANGED notified
    \/ \E ch \in AlarmChannels : \E p \in AlarmPayloads(ch) :
          testing_update_sensor_data(ch, p, TRUE) /\ UNCHANGED notified
    \/ \E ch \in AlarmChannels : \E p \in AlarmPayloads(ch) :
          esp32_update_sensor_data(1, ch, p) /\ UNCHANGED notified
    \/ esp32_log_data_write(1, TRUE)
    \/ update_gui
    \/ \E s \in Spo2Choices : save_and_return(s)
    \/ \E s \in Spo2Choices : \E lo \in HrChoices : \E hi \in HrChoices :
          save_settings(s, lo, hi)

SpecAlarm == Init /\ [][NextAlarm]_vars

(***************************************************************************)
(* SpecLog: the CSV log under a running clock, several BLE threads, the    *)
(* "Clear Data" button and changes of the log path.                        *)
(***************************************************************************)
NextLog ==
    \/ \E ch \in LogChannels : \E p \in LogPayloads(ch) : \E io_ok \in BOOLEAN :
          main_update_sensor_data(ch, p, io_ok) /\ UNCHANGED notified
    \/ \E ch \in LogChannels : \E p \in LogPayloads(ch) : \E io_ok \in BOOLEAN :
          testing_update_sensor_data(ch, p, io_ok) /\ UNCHANGED notified
    \/ \E t \in Threads : \E ch \in LogChannels : \E p \in LogPayloads(ch) :
          esp32_update_sensor_data(t, ch, p) /\ UNCHANGED notified
    \/ \E t \in Threads : \E io_ok \in BOOLEAN : esp32_log_data_write(t, io_ok)
    \/ Tick
    \/ \E path \in Paths : select_directory(path)
    \/ clear_data

SpecLog == Init /\ [][NextLog]_vars


(***************************************************************************)
(* Calibration.  MainProgram samples the stored reading num_samples times, *)
(* 10 ms apart, while the BLE thread keeps updating it.                    *)
(***************************************************************************)
num_samples == 100
MaxCalibRuns == 1
MaxNotified == 2

\* the text of one axis in "X: {x}, Y: {y}, Z: {z}"
AxisTok(s, a) == s[2 * Idx(a)]

Parses(s) == \A a \in Axes : AxisTok(s, a).kind = "num"

\* _parse_accel_data / _parse_gyro_data (testing.py): zeros on any error
parse_xyz(s) ==
    IF Parses(s) THEN [a \in Axes |-> AxisTok(s, a).v] ELSE NoSum

\* the try block of calibrate_accelerometer / calibrate_gyroscope (main.py):
\* x, then y, then z is added; a float() error leaves the rest out
PartialAdd(sum, s) ==
    LET okx == AxisTok(s, "x").kind = "num"
        oky == okx /\ AxisTok(s, "y").kind = "num"
        okz == oky /\ AxisTok(s, "z").kind = "num"
    IN [x |-> sum["x"] + (IF okx THEN AxisTok(s, "x").v ELSE 0),
        y |-> sum["y"] + (IF oky THEN AxisTok(s, "y").v ELSE 0),
        z |-> sum["z"] + (IF okz THEN AxisTok(s, "z").v ELSE 0)]

AddAll(sum, v) == [a \in Axes |-> sum[a] + v[a]]

\* what the window has really seen: ticks with data (n), ticks with a
\* parseable reading (k) and the sum of those readings (vsum)
Seen(c, s) ==
    IF s = NA THEN c
    ELSE [c EXCEPT !.n = @ + 1,
                   !.k = IF Parses(s) THEN @ + 1 ELSE @,
                   !.vsum = IF Parses(s) THEN AddAll(@, parse_xyz(s)) ELSE @]

storeVars == <<uiVars, bleVars, version, data, linear_accel, alarm_thresholds, alarmVars, last,
               LOG_FILE, logVars, now, pc, notified>>

\* the button handler up to its loop
calibrate_start(ch) ==
    /\ version \in {"main", "testing"}
    /\ ctor = "ok"
    /\ calib.pc = "idle"
    /\ calib.runs < MaxCalibRuns
    /\ calib' = [NoCalib EXCEPT !.pc = "sampling", !.ch = ch,
                                !.runs = calib.runs + 1]
    /\ UNCHANGED <<storeVars, accel_bias, gyro_bias, calib_file, ctor>>

\* one iteration of `for _ in range(num_samples)` in main.py
main_calibrate_sample ==
    /\ version = "main"
    /\ calib.pc = "sampling"
    /\ calib.tick < num_samples
    /\ LET s == data[calib.ch]
           c == Seen(calib, s)
       IN calib' = [c EXCEPT !.tick = @ + 1,
                             !.sum = IF s = NA THEN @ ELSE PartialAdd(@, s)]
    /\ UNCHANGED <<storeVars, accel_bias, gyro_bias, calib_file, ctor>>

\* one iteration of `for _ in range(100)` in testing.py: every reading that
\* is not "N/A" is appended to samples, as zeros when it does not parse
testing_calibrate_sample ==
    /\ version = "testing"
    /\ calib.pc = "sampling"
    /\ calib.tick < num_samples
    /\ LET s == data[calib.ch]
           c == Seen(calib, s)
       IN calib' = [c EXCEPT !.tick = @ + 1,
                             !.sum = IF s = NA THEN @
                                     ELSE AddAll(@, parse_xyz(s))]
    /\ UNCHANGED <<storeVars, accel_bias, gyro_bias, calib_file, ctor>>

\* 1 g is taken off the accelerometer's z axis
Gravity(ch, a, units) == IF ch = "accel" /\ a = "z" THEN units ELSE 0

\* main.py: self.accel_bias is the very dict data_manager.accel_bias, and
\* its three items are assigned one after the other: sum / num_samples.
MainBias(ch, a, sum) == Rat(sum[a] - Gravity(ch, a, num_samples), num_samples)

main_calibrate_store ==
    /\ version = "main"
    /\ \/ calib.pc = "sampling" /\ calib.tick = num_samples
       \/ calib.pc \in {"store_y", "store_z"}
    /\ LET a == CASE calib.pc = "sampling" -> "x"
                  [] calib.pc = "store_y" -> "y"
                  [] calib.pc = "store_z" -> "z"
           nxt == CASE calib.pc = "sampling" -> "store_y"
                    [] calib.pc = "store_y" -> "store_z"
                    [] calib.pc = "store_z" -> "save"
       IN /\ calib' = [calib EXCEPT !.pc = nxt]
          /\ IF calib.ch = "accel"
             THEN /\ accel_bias' = [accel_bias EXCEPT
                                       ![a] = MainBias("accel", a, calib.sum)]
                  /\ UNCHANGED gyro_bias
             ELSE /\ gyro_bias' = [gyro_bias EXCEPT
                                      ![a] = MainBias("gyro", a, calib.sum)]
                  /\ UNCHANGED accel_bias
    /\ UNCHANGED <<storeVars, calib_file, ctor>>

JsonFile(ab, gb) == [kind |-> "json", accel_bias |-> ab, gyro_bias |-> gb]

\* a save that also recomputes linear_accel from the stored reading
main_calibrate_save_recomputes ==
    /\ version = "main"
    /\ calib.pc = "save"
    /\ calib_file' = JsonFile(accel_bias, gyro_bias)
    /\ calib' = [calib EXCEPT !.pc = "idle", !.result = "ok"]
    /\ linear_accel' =
          IF data["accel"] = NA THEN linear_accel
          ELSE calculate_linear_acceleration(
                  [i \in 1..3 |-> data["accel"][2 * i]], accel_bias)
    /\ UNCHANGED <<uiVars, bleVars, version, data, alarm_thresholds, alarmVars, last,
                   LOG_FILE, logVars, now, pc, notified, accel_bias, gyro_bias,
                   ctor>>

\* main.py: data_manager.save_calibration() ends the handler
main_calibrate_save ==
    /\ version = "main"
    /\ calib.pc = "save"
    /\ calib_file' = JsonFile(accel_bias, gyro_bias)
    /\ calib' = [calib EXCEPT !.pc = "idle", !.result = "ok"]
    /\ UNCHANGED <<storeVars, accel_bias, gyro_bias, ctor>>

\* testing.py: no samples raises ValueError (an error box, nothing stored);
\* otherwise the mean over len(samples) is stored under the lock.  The file
\* is written only by the separate "Save Calibration" button.
TestingBias(ch, a, sum, n) == Rat(sum[a] - Gravity(ch, a, n), n)

testing_calibrate_finish ==
    /\ version = "testing"
    /\ calib.pc = "sampling"
    /\ calib.tick = num_samples
    /\ IF calib.n = 0
       THEN /\ calib' = [calib EXCEPT !.pc = "idle", !.result = "failed"]
            /\ UNCHANGED <<accel_bias, gyro_bias>>
       ELSE /\ calib' = [calib EXCEPT !.pc = "idle", !.result = "ok"]
            /\ IF calib.ch = "accel"
               THEN /\ accel_bias' = [a \in Axes |->
                          TestingBias("accel", a, calib.sum, calib.n)]
                    /\ UNCHANGED gyro_bias
               ELSE /\ gyro_bias' = [a \in Axes |->
                          TestingBias("gyro", a, calib.sum, calib.n)]
                    /\ UNCHANGED accel_bias
    /\ UNCHANGED <<storeVars, calib_file, ctor>>

CalibChannels == {"accel", "gyro"}

CalibPayloads(ch) ==
    CASE ch = "accel" -> {Triple(2, 2, 2), <<Num(2), Word, Num(2)>>}
      [] ch = "gyro" -> {Triple(4, 4, 4)}
      [] OTHER -> {}

(***************************************************************************)
(* SpecCalib: one calibration run of main.py or testing.py, with a few BLE *)
(* notifications arriving before, during and after the sampling window.    *)
(***************************************************************************)
InitCalib ==
    /\ version \in {"main", "testing"}
    /\ InitStore
    /\ accel_bias = ZeroBias
    /\ gyro_bias = ZeroBias
    /\ calib_file = MissingFile
    /\ ctor = "ok"

NextCalib ==
    \/ /\ notified < MaxNotified
       /\ notified' = notified + 1
       /\ \E ch \in CalibChannels : \E p \in CalibPayloads(ch) :
             main_update_sensor_data(ch, p, TRUE)
    \/ /\ notified < MaxNotified
       /\ notified' = notified + 1
       /\ \E ch \in CalibChannels : \E p \in CalibPayloads(ch) :
             testing_update_sensor_data(ch, p, TRUE)
    \/ \E ch \in CalibChannels : calibrate_start(ch)
    \/ main_calibrate_sample
    \/ testing_calibrate_sample
    \/ main_calibrate_store
    \/ main_calibrate_save
    \/ testing_calibrate_finish

SpecCalib == InitCalib /\ [][NextCalib]_vars


(***************************************************************************)
(* load_calibration, called by SensorDataManager.__init__.                 *)
(***************************************************************************)
Absent == [absent |-> TRUE]

One == Rat(1, 1)

\* a bias object of the file: a value for some of the axes
FileBiases == {[a \in S |-> One] : S \in SUBSET Axes}

CalibFiles ==
    {MissingFile, [kind |-> "invalid"]}
    \cup {JsonFile(ab, gb) : ab \in FileBiases \cup {Absent},
                             gb \in FileBiases \cup {Absent}}

\* main.py: only FileNotFoundError is caught; calibration["accel_bias"] and
\* calibration["gyro_bias"] are read in this order, each stored as found.
main_load_calibration ==
    /\ version = "main"
    /\ ctor = "new"
    /\ CASE calib_file.kind = "missing" ->
              /\ accel_bias' = ZeroBias
              /\ gyro_bias' = ZeroBias
              /\ ctor' = "ok"
         [] calib_file.kind = "invalid" ->
              /\ ctor' = "raised"
              /\ UNCHANGED <<accel_bias, gyro_bias>>
         [] calib_file.kind = "json" ->
              IF calib_file.accel_bias = Absent
              THEN /\ ctor' = "raised"
                   /\ UNCHANGED <<accel_bias, gyro_bias>>
              ELSE IF calib_file.gyro_bias = Absent
              THEN /\ accel_bias' = calib_file.accel_bias
                   /\ ctor' = "raised"
                   /\ UNCHANGED gyro_bias
              ELSE /\ accel_bias' = calib_file.accel_bias
                   /\ gyro_bias' = calib_file.gyro_bias
                   /\ ctor' = "ok"
    /\ UNCHANGED <<storeVars, calib_file, calib>>

\* testing.py: the biases are zero before the call, every exception is
\* caught, and calibration.get(key, zero) stores what the file holds.
testing_load_calibration ==
    /\ version = "testing"
    /\ ctor = "new"
    /\ ctor' = "ok"
    /\ IF calib_file.kind = "json"
       THEN /\ accel_bias' = IF calib_file.accel_bias = Absent
                             THEN ZeroBias ELSE calib_file.accel_bias
            /\ gyro_bias' = IF calib_file.gyro_bias = Absent
                            THEN ZeroBias ELSE calib_file.gyro_bias
       ELSE UNCHANGED <<accel_bias, gyro_bias>>
    /\ UNCHANGED <<storeVars, calib_file, calib>>

(***************************************************************************)
(* SpecLoad: construction of the data manager over any calibration file.   *)
(***************************************************************************)
InitLoad ==
    /\ version \in {"main", "testing"}
    /\ InitStore
    /\ calib_file \in CalibFiles
    /\ ctor = "new"
    /\ accel_bias = IF version = "main" THEN Undefined ELSE ZeroBias
    /\ gyro_bias = IF version = "main" THEN Undefined ELSE ZeroBias

NextLoad ==
    \/ main_load_calibration
    \/ testing_load_calibration

SpecLoad == InitLoad /\ [][NextLoad]_vars


(***************************************************************************)
(* The BLE connection loop: IntroWindow.read_ble_data on a daemon thread   *)
(* (main.py, esp32_v1.0.0.py) and BLEConnectionThread (testing.py).        *)
(* ble.pc is the position of the loop: "loop" at the head of the outer     *)
(* `while`, "connecting" inside BleakClient.__aenter__, "subscribing" in   *)
(* the start_notify calls, "connected" in the keep-alive loop, "backoff"   *)
(* in asyncio.sleep(5), "done" after the coroutine returned, "crashed"     *)
(* after an exception left it.                                             *)
(***************************************************************************)
BackoffSec == 5
MaxAttempts == 3
MaxConnects == 2

Addresses == {"AA:01", "BB:02"}

UUIDs == {"ACCEL_UUID", "GYRO_UUID", "SPO2_UUID", "HEART_RATE_UUID",
          "TEMP_UUID", "HEARTTEMP_UUID", "PEDOMETER_UUID"}

\* the start_notify calls: which characteristic calls update_sensor_data
\* with which sensor_type
Routes(v) ==
    [u \in (IF v = "esp32" THEN UUIDs \ {"PEDOMETER_UUID"} ELSE UUIDs) |->
        CASE u = "ACCEL_UUID" -> "accel"
          [] u = "GYRO_UUID" -> "gyro"
          [] u = "SPO2_UUID" -> "spo2"
          [] u = "HEART_RATE_UUID" -> "heart_rate"
          [] u = "TEMP_UUID" -> "temp"
          [] u = "HEARTTEMP_UUID" -> "hearttemp"
          [] u = "PEDOMETER_UUID" -> "pedometer"]

dmVars == <<version, data, linear_accel, alarm_thresholds, alarmVars, last,
            LOG_FILE, logVars, now, pc, notified, calibVars>>

\* connect_to_device: main.py and esp32_v1.0.0.py start a daemon thread on
\* read_ble_data(device_address) whatever the previous one is doing: a
\* previous loop that is connected stays in its keep-alive loop (the flag
\* it polls is never cleared) and is counted in ble.orphans.  testing.py
\* starts a BLEConnectionThread once the previous one, if any, has been
\* stopped and waited for.
connect_to_device(addr) ==
    /\ ctor = "ok"
    /\ \/ ble.pc \in {"none", "done", "crashed"}
       \/ version \in {"main", "esp32"} /\ ble.pc = "connected"
    /\ ble.id < MaxConnects
    /\ ble' = [NoThread EXCEPT !.id = ble.id + 1, !.pc = "loop",
                               !.address = addr, !.emitted = ble.emitted,
                               !.orphans = ble.orphans +
                                  (IF ble.pc = "connected" THEN 1 ELSE 0)]
    /\ UNCHANGED <<uiVars, dmVars, ble_connected, main_program_window>>

\* `while self.running:` / `while self.data_manager.running:` of the outer
\* loop, up to the entry of `async with BleakClient(address)`
read_ble_data_loop ==
    /\ ble.pc = "loop"
    /\ ble.running => ble.attempts < MaxAttempts
    /\ ble' = IF ble.running
              THEN [ble EXCEPT !.pc = "connecting", !.attempts = @ + 1]
              ELSE [ble EXCEPT !.pc = "done"]
    /\ UNCHANGED <<uiVars, dmVars, ble_connected, main_program_window>>

\* the `except Exception` block.  testing.py emits connection_status(False)
\* and error_occurred, whose slots clear ble_connected.  main.py and
\* esp32_v1.0.0.py clear ble_connected and then read the module global
\* main_program_window, a NameError until start_program has assigned it;
\* when the window is visible they show a message box and call
\* return_to_intro, which closes it.
ble_except ==
    /\ ble_connected' = FALSE
    /\ IF version = "testing"
       THEN /\ ble' = [ble EXCEPT !.pc = "backoff", !.wait = 0, !.routes = <<>>,
                                  !.failures = @ + 1, !.emitted = "false"]
            /\ UNCHANGED main_program_window
       ELSE IF main_program_window = "undefined"
       THEN /\ ble' = [ble EXCEPT !.pc = "crashed", !.routes = <<>>,
                                  !.failures = @ + 1, !.emitted = "false"]
            /\ UNCHANGED main_program_window
       ELSE /\ ble' = [ble EXCEPT !.pc = "backoff", !.wait = 0, !.routes = <<>>,
                                  !.failures = @ + 1, !.emitted = "false"]
            /\ main_program_window' = "hidden"

\* `async with BleakClient(address) as client:` connects or raises; on
\* success the status is set / emitted as connected
ble_client_enter(ok) ==
    /\ ble.pc = "connecting"
    /\ IF ok
       THEN /\ ble' = [ble EXCEPT !.pc = "subscribing", !.emitted = "true"]
            /\ ble_connected' = TRUE
            /\ UNCHANGED main_program_window
       ELSE ble_except
    /\ UNCHANGED <<uiVars, dmVars>>

\* the start_notify calls (_enable_notifications in testing.py)
enable_notifications(ok) ==
    /\ ble.pc = "subscribing"
    /\ IF ok
       THEN /\ ble' = [ble EXCEPT !.pc = "connected", !.routes = Routes(version)]
            /\ UNCHANGED <<ble_connected, main_program_window>>
       ELSE ble_except
    /\ UNCHANGED <<uiVars, dmVars>>

\* `while running: await asyncio.sleep(0.1)`: one poll of the keep-alive
\* loop; when the flag is clear the `async with` block is left (the client
\* disconnects) and the outer loop tests the flag again
ble_keep_alive ==
    /\ ble.pc = "connected"
    /\ ble' = IF ble.running THEN ble
              ELSE [ble EXCEPT !.pc = "loop", !.routes = <<>>]
    /\ UNCHANGED <<uiVars, dmVars, ble_connected, main_program_window>>

\* `await asyncio.sleep(5)` after an error: one second of it, or its end
ble_backoff ==
    /\ ble.pc = "backoff"
    /\ ble' = IF ble.wait < BackoffSec
              THEN [ble EXCEPT !.wait = @ + 1]
              ELSE [ble EXCEPT !.pc = "loop"]
    /\ UNCHANGED <<uiVars, dmVars, ble_connected, main_program_window>>

\* BLEConnectionThread.stop (testing.py), the only place that clears a
\* running flag; called by closeEvent and _connect_to_device when the
\* thread isRunning()
stop ==
    /\ version = "testing"
    /\ ble.pc \notin {"none", "done", "crashed"}
    /\ ble' = [ble EXCEPT !.running = FALSE, !.stop_requested = TRUE]
    /\ UNCHANGED <<uiVars, dmVars, ble_connected, main_program_window>>

\* the intro window is closed by the user while a BLE task runs: main.py
\* and esp32_v1.0.0.py have no closeEvent and never clear
\* data_manager.running
close_window ==
    /\ version \in {"main", "esp32"}
    /\ ble.pc \notin {"none", "done", "crashed"}
    /\ ~ble.stop_requested
    /\ ble' = [ble EXCEPT !.stop_requested = TRUE]
    /\ UNCHANGED <<uiVars, dmVars, ble_connected, main_program_window>>

\* IntroWindow.start_program (main.py, esp32_v1.0.0.py): needs
\* ble_connected, assigns the global main_program_window and shows it
start_program ==
    /\ version \in {"main", "esp32"}
    /\ ble_connected
    /\ main_program_window # "visible"
    /\ main_program_window' = "visible"
    /\ UNCHANGED <<uiVars, dmVars, ble, ble_connected>>

\* IntroWindow._start_program (testing.py): needs ble_connected, then
\* self.close(), whose closeEvent calls ble_thread.stop() and wait() when the
\* thread is running: the keep-alive loop sees the cleared flag and the
\* thread ends before MainProgram is shown
testing_start_program ==
    /\ version = "testing"
    /\ ble_connected
    /\ main_program_window # "visible"
    /\ ble.pc \in {"connected", "done"}
    /\ ble' = IF ble.pc = "connected"
              THEN [ble EXCEPT !.running = FALSE, !.stop_requested = TRUE,
                               !.pc = "done", !.routes = <<>>]
              ELSE ble
    /\ main_program_window' = "visible"
    /\ UNCHANGED <<uiVars, dmVars, ble_connected>>

\* a notification of characteristic u calls the lambda registered for it
BlePayload(ch) == IF IsTriple(ch) THEN Triple(1, 2, 3) ELSE <<Num(70)>>

BleChannels == {"accel", "spo2", "pedometer"}

ble_notification(u) ==
    /\ ble.pc = "connected"
    /\ u \in DOMAIN ble.routes
    /\ ble.routes[u] \in BleChannels
    /\ LET ch == ble.routes[u]
       IN \/ main_update_sensor_data(ch, BlePayload(ch), TRUE)
          \/ testing_update_sensor_data(ch, BlePayload(ch), TRUE)
          \/ esp32_update_sensor_data(1, ch, BlePayload(ch))
    /\ UNCHANGED notified

(***************************************************************************)
(* SpecBle: the connection loop with connection failures, the stop         *)
(* request and the notifications of a connected device.                    *)
(***************************************************************************)
NextBle ==
    \/ \E addr \in Addresses : connect_to_device(addr)
    \/ read_ble_data_loop
    \/ \E ok \in BOOLEAN : ble_client_enter(ok)
    \/ \E ok \in BOOLEAN : enable_notifications(ok)
    \/ ble_keep_alive
    \/ ble_backoff
    \/ stop
    \/ close_window
    \/ start_program
    \/ testing_start_program
    \/ \E u \in UUIDs : ble_notification(u)
    \/ esp32_log_data_write(1, TRUE)

SpecBle == Init /\ [][NextBle]_vars


(***************************************************************************)
(* SpecLinear: main.py constructed over any calibration file, then updates *)
(* on the motion channels and one vital-sign channel.                      *)
(***************************************************************************)
LinearChannels == {"accel", "gyro", "spo2"}

InitLinear ==
    /\ version = "main"
    /\ InitStore
    /\ calib_file \in CalibFiles
    /\ ctor = "new"
    /\ accel_bias = Undefined
    /\ gyro_bias = Undefined

NextLinear ==
    \/ main_load_calibration
    \/ \E ch \in LinearChannels : \E p \in Payloads(ch) : \E io_ok \in BOOLEAN :
          main_update_sensor_data(ch, p, io_ok) /\ UNCHANGED notified

SpecLinear == InitLinear /\ [][NextLinear]_vars

(***************************************************************************)
(* SpecRecal: calibration runs of the accelerometer in main.py while accel *)
(* notifications arrive.                                                   *)
(***************************************************************************)
InitRecal ==
    /\ version = "main"
    /\ InitStore
    /\ accel_bias = ZeroBias
    /\ gyro_bias = ZeroBias
    /\ calib_file = MissingFile
    /\ ctor = "ok"

NextRecal ==
    \/ /\ notified < MaxNotified
       /\ notified' = notified + 1
       /\ main_update_sensor_data("accel", Triple(2, 2, 2), TRUE)
    \/ calibrate_start("accel")
    \/ main_calibrate_sample
    \/ main_calibrate_store
    \/ main_calibrate_save

SpecRecal == InitRecal /\ [][NextRecal]_vars


(***************************************************************************)
(* SpecConfig: the settings dialogs.  The store assigns whatever value the *)
(* spin box of the dialog holds; the only range check is the range of the  *)
(* QSpinBox, which moves a requested value to its nearest bound.           *)
(***************************************************************************)
Fields == {"spo2", "points"}

\* setRange(0, 100) and setRange(10, 1000)
SpinRange(f) == IF f = "spo2" THEN [lo |-> 0, hi |-> 100]
                ELSE [lo |-> 10, hi |-> 1000]

\* a freshly constructed QSpinBox has the range 0..99
QSpinBoxDefault == [lo |-> 0, hi |-> 99]

\* QSpinBox.setValue / stepBy: the value is bound to the range
Bound(v, r) == IF v < r.lo THEN r.lo ELSE IF v > r.hi THEN r.hi ELSE v

Stored(f) == IF f = "spo2" THEN alarm_thresholds["spo2"] ELSE graph_data_points

\* the dialog is constructed: main.py and esp32_v1.0.0.py call
\* setValue(stored) and then setRange; testing.py calls setRange in the
\* constructor and setValue(stored) in _load_settings
open_dialog(f) ==
    /\ spinbox' = [spinbox EXCEPT ![f] =
                     [typed |-> Stored(f),
                      value |-> IF version = "testing"
                                THEN Bound(Stored(f), SpinRange(f))
                                ELSE Bound(Bound(Stored(f), QSpinBoxDefault),
                                           SpinRange(f))]]
    /\ UNCHANGED <<graph_data_points, lock, graph, bleVars, dmVars>>

\* the user asks the spin box for v (keys, wheel, page steps)
spin_edit(f, v) ==
    /\ spinbox' = [spinbox EXCEPT ![f] =
                     [typed |-> v, value |-> Bound(v, SpinRange(f))]]
    /\ UNCHANGED <<graph_data_points, lock, graph, bleVars, dmVars>>

\* CustomiseWindow.save_and_return (main.py, esp32_v1.0.0.py) and
\* CustomiseWindow._apply_settings (testing.py)
customise_save ==
    /\ graph_data_points' = spinbox.points.value
    /\ UNCHANGED <<spinbox, lock, graph, bleVars, dmVars>>

SpinRequests(f) == IF f = "spo2" THEN {-5, 50, 100, 150}
                   ELSE {5, 12, 500, 2000}

NextConfig ==
    \/ \E f \in Fields : open_dialog(f)
    \/ \E f \in Fields : \E v \in SpinRequests(f) : spin_edit(f, v)
    \/ save_and_return(spinbox.spo2.value)
    \/ \E lo \in HrChoices : \E hi \in HrChoices :
          save_settings(spinbox.spo2.value, lo, hi)
    \/ customise_save

SpecConfig == Init /\ [][NextConfig]_vars


(***************************************************************************)
(* SpecLock: update_sensor_data of main.py and testing.py in three steps,  *)
(* the entry of `with self.lock:`, the body and the exit of the `with`     *)
(* block, for several BLE callback threads beside the settings dialog.     *)
(* Between entry and body `last` is NoCall: the call has no outcome yet.   *)
(***************************************************************************)
\* `with self.lock:` is entered: Lock.acquire blocks while another thread
\* holds the lock
update_lock_acquire(t) ==
    /\ version \in {"main", "testing"}
    /\ ctor = "ok"
    /\ lock.holder = 0
    /\ lock' = [holder |-> t]
    /\ last' = NoCall
    /\ UNCHANGED <<graph_data_points, spinbox, graph, bleVars, version, data,
                   linear_accel, alarm_thresholds, alarmVars, LOG_FILE,
                   logVars, now, pc, notified, calibVars>>

\* the body of the `with` block: the assignment, log_data and (testing.py)
\* _check_alarms, all of them before the block is left
update_locked_body(t, ch, p, io_ok) ==
    /\ lock.holder = t
    /\ last = NoCall
    /\ \/ main_update_sensor_data(ch, p, io_ok)
       \/ testing_update_sensor_data(ch, p, io_ok)
    /\ UNCHANGED notified

\* a `with` block that is left without releasing when its body raised, as
\* acquire() ... release() without try/finally would be
update_lock_kept_on_raise(t) ==
    /\ lock.holder = t
    /\ last.op = "update"
    /\ ~last.raised
    /\ lock' = FreeLock
    /\ UNCHANGED <<graph_data_points, spinbox, graph, bleVars, dmVars>>

\* the `with` block is left, by its end or by an exception of the body:
\* Lock.__exit__ releases
update_lock_release(t) ==
    /\ lock.holder = t
    /\ last.op = "update"
    /\ lock' = FreeLock
    /\ UNCHANGED <<graph_data_points, spinbox, graph, bleVars, dmVars>>

InitLock == Init /\ version \in {"main", "testing"}

NextLock ==
    \/ \E t \in Threads : update_lock_acquire(t)
    \/ \E t \in Threads : \E ch \in LogChannels : \E p \in LogPayloads(ch) :
          \E io_ok \in BOOLEAN : update_locked_body(t, ch, p, io_ok)
    \/ \E t \in Threads : update_lock_release(t)
    \/ \E s \in Spo2Choices : save_and_return(s)
    \/ /\ lock.holder = 0
       /\ \E s \in Spo2Choices : \E lo \in HrChoices : \E hi \in HrChoices :
             save_settings(s, lo, hi)
    \/ Tick

SpecLock == InitLock /\ [][NextLock]_vars


(***************************************************************************)
(* SpecGraph: the graph refresh of MainProgram in main.py and testing.py.  *)
(* A history list is modelled by its length, a line by the lengths of the  *)
(* x and y sequences last handed to set_data.  graph.flip changes at every *)
(* refresh, graph.gained names the graphs that got a point in the last     *)
(* one, graph.armed tells whether the timer will fire again.               *)
(***************************************************************************)
MaxLen == 11

Known(ch) == data[ch] # NA

Min2(a, b) == IF a < b THEN a ELSE b

\* list.append on each list of bs
Grow(len, bs) == [b \in Buffers |-> IF b \in bs THEN len[b] + 1 ELSE len[b]]

\* `if len(lead) > max_points:` each list of bs becomes list[-max_points:]
Trim(len, bs, lead, max_points) ==
    IF len[lead] > max_points
    THEN [b \in Buffers |-> IF b \in bs THEN Min2(len[b], max_points) ELSE len[b]]
    ELSE len

\* a run of appends, the i-th being list.append(float(data[ch])), or
\* append(timestamp) when ch is "none": the lists appended to before the
\* first float() that raises ValueError
Appends(steps) ==
    LET bad == {i \in 1..Len(steps) :
                   steps[i].ch # "none" /\ ~IsFloat(data[steps[i].ch])}
        n == IF bad = {} THEN Len(steps)
             ELSE (CHOOSE i \in bad : \A j \in bad : i <= j) - 1
    IN [done |-> {steps[i].b : i \in 1..n}, raised |-> bad # {}]

Step(b, ch) == [b |-> b, ch |-> ch]

graphFrame == <<graph_data_points, spinbox, lock, bleVars, dmVars>>

\* MainProgram.update_graphs (main.py): nothing is drawn until the four
\* vital signs are known; an exception leaves the slot before
\* QTimer.singleShot re-arms it
main_update_graphs ==
    /\ version = "main"
    /\ graph.armed
    /\ \A b \in Buffers : graph.len[b] < MaxLen
    /\ IF ~(Known("temp") /\ Known("hearttemp") /\ Known("heart_rate")
              /\ Known("spo2"))
       THEN graph' = [graph EXCEPT !.flip = ~@, !.gained = {}]
       ELSE LET five == {"timestamps", "temp_values", "hearttemp_values",
                         "hr_values", "spo2_values"}
                a == Appends(<<Step("timestamps", "none"),
                               Step("temp_values", "temp"),
                               Step("hearttemp_values", "hearttemp"),
                               Step("hr_values", "heart_rate"),
                               Step("spo2_values", "spo2")>>)
                l1 == Grow(graph.len, a.done)
                l2 == Trim(l1, five, "timestamps", graph_data_points)
                l3 == IF Known("accel")
                      THEN Trim(Grow(l2, {"accel_values"}), {"accel_values"},
                                "accel_values", graph_data_points)
                      ELSE l2
            IN IF a.raised
               THEN graph' = [graph EXCEPT !.len = l1, !.armed = FALSE,
                                           !.flip = ~@, !.gained = {}]
               ELSE graph' =
                      [len |-> l3,
                       line |-> [l \in Lines |->
                          CASE l = "temp" ->
                                 [x |-> l3["timestamps"], y |-> l3["temp_values"]]
                            [] l = "hearttemp" ->
                                 [x |-> l3["timestamps"],
                                  y |-> l3["hearttemp_values"]]
                            [] l = "hr" ->
                                 [x |-> l3["timestamps"], y |-> l3["hr_values"]]
                            [] l = "spo2" ->
                                 [x |-> l3["timestamps"], y |-> l3["spo2_values"]]
                            [] l = "accel" ->
                                 IF Known("accel")
                                 THEN [x |-> Min2(l3["timestamps"],
                                                  l3["accel_values"]),
                                       y |-> l3["accel_values"]]
                                 ELSE graph.line[l]],
                       armed |-> TRUE, flip |-> ~graph.flip,
                       gained |-> {"temperature", "heart_rate"}
                                    \cup (IF Known("accel") THEN {"motion"}
                                          ELSE {})]
    /\ UNCHANGED graphFrame

\* the temperature part of MainProgram._update_graphs (testing.py); it is
\* the only place that assigns the locals `timestamp` and `max_points`
testing_graph_temp(g) ==
    IF ~(Known("temp") /\ Known("hearttemp")) THEN [g EXCEPT !.raised = FALSE]
    ELSE LET three == {"temp_timestamps", "temp_values", "hearttemp_values"}
             a == Appends(<<Step("temp_timestamps", "none"),
                            Step("temp_values", "temp"),
                            Step("hearttemp_values", "hearttemp")>>)
             l1 == Grow(g.len, a.done)
             l2 == Trim(l1, three, "temp_timestamps", graph_data_points)
         IN IF a.raised THEN [g EXCEPT !.len = l1, !.raised = TRUE]
            ELSE [g EXCEPT !.len = l2,
                           !.line["temp"] = [x |-> l2["temp_timestamps"],
                                             y |-> l2["temp_values"]],
                           !.line["hearttemp"] =
                               [x |-> l2["temp_timestamps"],
                                y |-> l2["hearttemp_values"]],
                           !.gained = @ \cup {"temperature"}]

\* the HR/SpO2 part: hr_timestamps.append(timestamp) is a NameError when
\* the temperature part did not run
testing_graph_hr(g) ==
    IF g.raised \/ ~(Known("heart_rate") /\ Known("spo2")) THEN g
    ELSE IF ~(Known("temp") /\ Known("hearttemp"))
    THEN [g EXCEPT !.raised = TRUE]
    ELSE LET three == {"hr_timestamps", "hr_values", "spo2_values"}
             a == Appends(<<Step("hr_timestamps", "none"),
                            Step("hr_values", "heart_rate"),
                            Step("spo2_values", "spo2")>>)
             l1 == Grow(g.len, a.done)
             l2 == Trim(l1, three, "hr_timestamps", graph_data_points)
         IN IF a.raised THEN [g EXCEPT !.len = l1, !.raised = TRUE]
            ELSE [g EXCEPT !.len = l2,
                           !.line["hr"] = [x |-> l2["hr_timestamps"],
                                           y |-> l2["hr_values"]],
                           !.line["spo2"] = [x |-> l2["hr_timestamps"],
                                             y |-> l2["spo2_values"]],
                           !.gained = @ \cup {"heart_rate"}]

\* the motion part: _parse_accel_data never raises, append(timestamp) is
\* a NameError when the temperature part did not run
testing_graph_motion(g) ==
    IF g.raised \/ ~Known("accel") THEN g
    ELSE IF ~(Known("temp") /\ Known("hearttemp"))
    THEN [g EXCEPT !.raised = TRUE]
    ELSE LET two == {"accel_timestamps", "accel_values"}
             l2 == Trim(Grow(g.len, two), two, "accel_timestamps",
                        graph_data_points)
         IN [g EXCEPT !.len = l2,
                      !.line["accel"] = [x |-> l2["accel_timestamps"],
                                         y |-> l2["accel_values"]],
                      !.gained = @ \cup {"motion"}]

\* MainProgram._update_graphs (testing.py), a slot of the periodic
\* graph_timer: the three parts inside one try, `except Exception` logs
testing_update_graphs ==
    /\ version = "testing"
    /\ \A b \in Buffers : graph.len[b] < MaxLen
    /\ LET g0 == [len |-> graph.len, line |-> graph.line, gained |-> {},
                  raised |-> FALSE]
           g3 == testing_graph_motion(testing_graph_hr(testing_graph_temp(g0)))
       IN graph' = [len |-> g3.len, line |-> g3.line, armed |-> TRUE,
                    flip |-> ~graph.flip, gained |-> g3.gained]
    /\ UNCHANGED graphFrame

GraphChannels == {"temp", "hearttemp", "heart_rate", "spo2", "accel"}

\* what the device sends: readings, and on one channel a text that is no
\* number
GraphPayloads(ch) ==
    CASE ch = "spo2" -> {<<Num(95)>>, <<Word>>}
      [] ch = "accel" -> {Triple(1, 2, 3)}
      [] OTHER -> {<<Num(70)>>}

GraphPoints == {10}

InitGraph == Init /\ version \in {"main", "testing"}

NextGraph ==
    \/ \E ch \in GraphChannels : \E p \in GraphPayloads(ch) :
          main_update_sensor_data(ch, p, TRUE) /\ UNCHANGED notified
    \/ \E ch \in GraphChannels : \E p \in GraphPayloads(ch) :
          testing_update_sensor_data(ch, p, TRUE) /\ UNCHANGED notified
    \/ \E v \in GraphPoints : spin_edit("points", v)
    \/ customise_save
    \/ main_update_graphs
    \/ testing_update_graphs

SpecGraph == InitGraph /\ [][NextGraph]_vars


(***************************************************************************)
(* Properties.                                                             *)
(***************************************************************************)
Locked == version \in {"main", "testing"}

\* C1: in main.py and testing.py an update with a malformed payload (wrong
\* arity, a non-numeric field, empty) leaves the channel's stored reading
\* as it was and does not raise to the BLE callback.
C1_MalformedPayloadIgnored ==
    [][(Locked /\ last'.op = "update" /\ last'.malformed /\ ~last'.iofail)
         => (data'[last'.ch] = data[last'.ch] /\ ~last'.raised)]_vars

\* C2: while spo2 is still "N/A" the alarm set never holds Low SpO2, and
\* while heart_rate is still "N/A" it holds neither heart-rate alarm.
C2_UnknownNeverAlarms ==
    /\ data["spo2"] = NA => LowSpO2 \notin alarms
    /\ data["heart_rate"] = NA => (LowHR \notin alarms /\ HighHR \notin alarms)

\* the three rules of the alarm evaluator, each on its own
IndependentRules(spo2, hr, th) ==
    (IF spo2 < th["spo2"] THEN {LowSpO2} ELSE {})
    \cup (IF hr < th["heart_rate_low"] THEN {LowHR} ELSE {})
    \cup (IF hr > th["heart_rate_high"] THEN {HighHR} ELSE {})

\* C3: with numeric spo2 and heart_rate readings and any threshold triple
\* the settings allow, the evaluated alarm set is exactly the one the three
\* independent rules give.
C3_AlarmSetExact ==
    (alarm_fresh /\ IsFloat(data["spo2"]) /\ IsFloat(data["heart_rate"]))
    => alarms = IndependentRules(Float(data["spo2"]),
                                 Float(data["heart_rate"]), alarm_thresholds)

OnlyHeartRateKnown ==
    \A ch \in DOMAIN data : ch # "heart_rate" => data[ch] = NA

\* C4: from a fresh store with the default thresholds (heart_rate_low = 60),
\* heart rate "45" evaluates to exactly {Low Heart Rate} and a following
\* heart rate "70" to the empty set.
C4_HeartRateExample ==
    (alarm_fresh /\ OnlyHeartRateKnown
        /\ alarm_thresholds = DefaultThresholds)
    => /\ data["heart_rate"] = <<Num(45)>> => alarms = {LowHR}
       /\ data["heart_rate"] = <<Num(70)>> => alarms = {}

IsData(r) == r.kind = "data"

DataRows(f) == SelectSeq(files[f].rows, IsData)

Spaced(rows) ==
    \A i \in 1..(Len(rows) - 1) : rows[i + 1].t - rows[i].t >= TicksPerSec

\* C5: two consecutive data rows of a CSV file are at least one second
\* apart, whatever the number of BLE threads, and a first well-formed update
\* whose write does not fail has written a row.
C5_OneRowPerSecond ==
    /\ \A f \in Paths : Spaced(DataRows(f))
    /\ (last.op = "update" /\ ~last.malformed /\ ~last.iofail
            /\ \A t \in Threads : pc[t] = "idle")
       => last_log_time # <<>>

\* C6: in main.py and testing.py a failed open/write of the CSV file does
\* not leave update_sensor_data as an exception: the reading is stored and
\* last_log_time stays where it was.
C6_LogFailureContained ==
    [][(Locked /\ last'.op = "update" /\ last'.iofail)
         => /\ ~last'.raised
            /\ data'[last'.ch] # NA
            /\ last_log_time' = last_log_time]_vars

\* C7: a non-empty log file starts with the header row and holds no other
\* header row.
C7_SingleHeader ==
    \A f \in Paths :
        LET rows == files[f].rows
        IN Len(rows) > 0
           => /\ rows[1] = HeaderRow
              /\ \A i \in 2..Len(rows) : rows[i].kind # "header"

BiasOf(ch) == IF ch = "accel" THEN accel_bias ELSE gyro_bias

\* C8: a calibration run whose channel stayed "N/A" for the whole window
\* reports a failure and leaves the stored bias and the calibration file
\* as they were.
C8_NoSamplesNoBias ==
    (calib.result # "none" /\ calib.n = 0)
    => /\ calib.result = "failed"
       /\ accel_bias = ZeroBias
       /\ gyro_bias = ZeroBias
       /\ calib_file = MissingFile

\* C9: after a window with k >= 1 valid readings the stored bias is, per
\* axis, the sum of the valid readings over k (minus 1 on the
\* accelerometer's z axis).
C9_BiasIsMeanOfValid ==
    (calib.result # "none" /\ calib.k >= 1)
    => /\ calib.result = "ok"
       /\ DOMAIN BiasOf(calib.ch) = Axes
       /\ \A a \in Axes :
             RatEq(BiasOf(calib.ch)[a],
                   Rat(calib.vsum[a] - Gravity(calib.ch, a, calib.k), calib.k))

Complete(b) == DOMAIN b = Axes

LacksKey(f) ==
    \/ f.kind # "json"
    \/ f.accel_bias = Absent \/ f.gyro_bias = Absent
    \/ ~Complete(f.accel_bias) \/ ~Complete(f.gyro_bias)

\* C10: load_calibration never fails and leaves both biases complete x/y/z
\* triples, the zero bias when the file is missing, not JSON or lacks a key.
C10_LoadNeverFails ==
    ctor # "new"
    => /\ ctor = "ok"
       /\ Complete(accel_bias)
       /\ Complete(gyro_bias)
       /\ LacksKey(calib_file) => (accel_bias = ZeroBias /\ gyro_bias = ZeroBias)

\* the fields of the stored accel text "X: {x}, Y: {y}, Z: {z}"
StoredAccel == [i \in 1..3 |-> data["accel"][2 * i]]

\* C11: in main.py a reader of accel_data and linear_accel never sees a torn
\* accelerometer update: once an accel reading is stored, linear_accel is the
\* value computed from that reading and the bias.
C11_NoTornAccelUpdate ==
    (version = "main" /\ data["accel"] # NA)
    => /\ CanCalcLinear(StoredAccel, accel_bias)
       /\ linear_accel = calculate_linear_acceleration(StoredAccel, accel_bias)

\* the bias a calibration run of the accelerometer stores, as a whole
RunBias ==
    [a \in Axes |->
        IF version = "main" THEN MainBias("accel", a, calib.sum)
        ELSE TestingBias("accel", a, calib.sum, calib.n)]

SameBias(b1, b2) == \A a \in Axes : RatEq(b1[a], b2[a])

\* C12: a calibration run replaces the bias triple atomically with respect
\* to ingestion: whenever an accel update runs, the accelerometer bias it
\* sees is the triple from before the run or the triple the run stores,
\* never a mix of the two.
C12_BiasReplacedAtomically ==
    [][(notified' # notified /\ last'.ch = "accel" /\ calib.ch = "accel")
         => (SameBias(accel_bias, ZeroBias) \/ SameBias(accel_bias, RunBias))]_vars

\* the BLE loop has left read_ble_data
LoopEnded(b) == b.pc \in {"done", "crashed"}

\* C13: after a transport error the loop waits the whole 5 s backoff and
\* then tries the same address again, for as long as the keep-running flag
\* is set: the loop ends only with the flag cleared, a retry starts only
\* after 5 s of backoff, every failure belongs to an attempt of its own, and
\* the address of a loop never changes.
C13_RetryAfterBackoff ==
    [][/\ LoopEnded(ble') => ~ble'.running
       /\ (ble'.id = ble.id /\ ble'.attempts > ble.attempts /\ ble.failures > 0)
             => ble.wait = BackoffSec
       /\ ble'.id = ble.id => ble'.address = ble.address
       /\ ble'.attempts - ble'.failures \in {0, 1}]_vars

\* C14: stop() during the 5 s backoff wait cancels the wait: once the flag
\* is cleared no further second of backoff is slept, no further connection
\* attempt is made, and a second stop() changes nothing.
C14_StopCancelsBackoff ==
    [][(ble'.id = ble.id /\ ~ble.running)
         => /\ ble.pc = "backoff" => ble'.wait = ble.wait
            /\ ble'.attempts = ble.attempts
            /\ ble'.running = ble.running]_vars

\* C15: every connection state transition is notified with the new state,
\* also the one an explicit stop() causes: once a stopped BLE thread has
\* ended, the last notification is not "connected" and ble_connected is
\* False.
C15_StopIsNotified ==
    (ble.pc = "done" /\ ble.stop_requested)
    => (ble.emitted # "true" /\ ~ble_connected)

\* C16: every revision can signal a running BLE task to stop: after a stop
\* request (disconnect, closing the window) the keep-running flag of the
\* loop is cleared, so that the keep-alive loop is left at its next poll.
C16_StopIsSignalled ==
    ble.stop_requested => ~ble.running

\* the seven characteristics and the channel each one carries
SevenChannels ==
    ("ACCEL_UUID" :> "accel") @@ ("GYRO_UUID" :> "gyro")
    @@ ("SPO2_UUID" :> "spo2") @@ ("HEART_RATE_UUID" :> "heart_rate")
    @@ ("TEMP_UUID" :> "temp") @@ ("HEARTTEMP_UUID" :> "hearttemp")
    @@ ("PEDOMETER_UUID" :> "pedometer")

\* C17: in all three revisions a session that reached its keep-alive loop
\* has subscribed all 7 characteristics, each routed to update_sensor_data
\* under its own channel's name.
C17_AllChannelsSubscribed ==
    ble.pc = "connected" => ble.routes = SevenChannels

\* the text update_sensor_data stores for payload p on channel ch
StoredText(ch, p) ==
    IF ch \in {"accel", "gyro"}
    THEN <<Lbl(1), p[1], Lbl(2), p[2], Lbl(3), p[3]>>
    ELSE p

\* C18: in main.py and testing.py a successful update replaces the reading
\* of its channel by the new value alone and leaves the readings of the
\* other six channels, the biases and the configuration as they were.
C18_UpdateTouchesOneChannel ==
    [][(Locked /\ last'.op = "update" /\ ~last'.malformed /\ ~last'.raised)
         => /\ \E p \in Payloads(last'.ch) :
                  ~Malformed(last'.ch, p) /\ data'[last'.ch] = StoredText(last'.ch, p)
            /\ \A c \in DOMAIN data \ {last'.ch} : data'[c] = data[c]
            /\ accel_bias' = accel_bias
            /\ gyro_bias' = gyro_bias
            /\ alarm_thresholds' = alarm_thresholds
            /\ LOG_FILE' = LOG_FILE]_vars

\* a reading has superseded an earlier one while other channels hold theirs
C18_Witness ==
    /\ Locked
    /\ last.op = "update" /\ last.ch = "heart_rate" /\ ~last.raised
    /\ data["heart_rate"] = <<Num(80)>>
    /\ data["accel"] = StoredText("accel", Triple(4, 5, 6))
    /\ data["spo2"] = <<Num(95)>>

\* (x - b.x, y - b.y, z - b.z - 1), the vector whose magnitude times 9.81
\* is the linear acceleration of reading p under bias b
ExpectedLinear(p, b) ==
    [a \in Axes |->
        Rat(p[Idx(a)].v * b[a].den - b[a].num
                - (IF a = "z" THEN b[a].den ELSE 0),
            b[a].den)]

SameVector(v, w) == \A a \in Axes : RatEq(v[a], w[a])

C20_BiasStoreKeepsLinearAccel ==
    [][/\ accel_bias' # accel_bias => linear_accel' = linear_accel
       /\ linear_accel' # linear_accel
            => /\ notified' # notified
               /\ last'.ch = "accel"
               /\ SameVector(linear_accel',
                             ExpectedLinear([i \in 1..3 |-> data'["accel"][2 * i]],
                                            accel_bias))]_vars

\* a finished calibration has stored a bias, and linear_accel is still the
\* value of the last accel update, computed under the bias before it
C20_Witness ==
    /\ calib.result = "ok"
    /\ ~SameBias(accel_bias, ZeroBias)
    /\ data["accel"] = StoredText("accel", Triple(2, 2, 2))
    /\ SameVector(linear_accel, ExpectedLinear(Triple(2, 2, 2), ZeroBias))
    /\ ~SameVector(linear_accel, ExpectedLinear(Triple(2, 2, 2), accel_bias))

InRange(f, v) == v >= SpinRange(f).lo /\ v <= SpinRange(f).hi

\* the stored settings stay inside their declared ranges
ConfigInRange == \A f \in Fields : InRange(f, Stored(f))

\* C21: a setting asked for outside its declared range (the SpO2 threshold
\* outside 0..100, graph_data_points outside 10..1000) is rejected and the
\* stored value stays what it was, so that the stored values are in range.
C21_OutOfRangeRejected ==
    [][/\ ~InRange("spo2", spinbox.spo2.typed)
             => alarm_thresholds'["spo2"] = alarm_thresholds["spo2"]
       /\ ~InRange("points", spinbox.points.typed)
             => graph_data_points' = graph_data_points]_vars

\* C22: the lock of the store is not held while a row is written to the CSV
\* log or while the alarms are evaluated: update_sensor_data releases it
\* after the assignment and logs and evaluates afterwards.
C22_NoIoUnderLock ==
    [][(\/ files' # files
        \/ (version = "testing" /\ last.op = "none" /\ last'.op = "update"
              /\ alarm_fresh'))
         => lock.holder = 0]_vars

HolderStep ==
    \E t \in Threads :
       \/ \E ch \in LogChannels : \E p \in LogPayloads(ch) :
             update_locked_body(t, ch, p, TRUE)
       \/ update_lock_release(t)

\* C23: the lock never deadlocks: whoever holds it is inside the `with`
\* block of update_sensor_data and can take its next step, the block never
\* asks for the lock again, and once the call is over, by its end or by an
\* exception, the lock is free.
C23_LockNeverStuck ==
    lock.holder # 0 => /\ lock.holder \in Threads
                       /\ ENABLED HolderStep

\* an update raised inside the `with` block of main.py and the lock is free
C23_Witness ==
    /\ version = "main"
    /\ last.op = "update"
    /\ last.raised
    /\ lock.holder = 0

\* C24: after every graph refresh each history list holds at most
\* graph_data_points entries and the x and y sequences handed to each line
\* have the same length, whatever settings changes and refreshes with an
\* unknown reading came before.
C24_GraphBuffersBounded ==
    [][graph'.flip # graph.flip
         => /\ \A b \in Buffers : graph'.len[b] <= graph_data_points
            /\ \A l \in Lines : graph'.line[l].x = graph'.line[l].y]_vars

\* C30: in testing.py each graph is refreshed from its own channels: a
\* refresh with numeric heart_rate and spo2 adds a point to the HR/SpO2
\* history and one with accel known adds a point to the motion history,
\* also while temp or hearttemp is "N/A".
C30_GraphsIndependent ==
    [][(version = "testing" /\ graph'.flip # graph.flip)
         => /\ (IsFloat(data["heart_rate"]) /\ IsFloat(data["spo2"]))
                 => "heart_rate" \in graph'.gained
            /\ Known("accel") => "motion" \in graph'.gained]_vars

\* the loops of read_ble_data that have not ended
LiveLoops == ble.orphans + (IF ble.pc \in {"none", "done", "crashed"} THEN 0 ELSE 1)

\* C25: at most one BLE connection loop runs at any time: when a device is
\* connected to while a loop is connected or in backoff, the earlier loop
\* has ended before the new one starts.
C25_SingleLoop == LiveLoops <= 1

\* C26: in testing.py starting the monitoring does not end the BLE session:
\* after _start_program the BLEConnectionThread that was connected is
\* still running.
C26_StartKeepsSession ==
    [][(version = "testing" /\ main_program_window # "visible"
          /\ main_program_window' = "visible" /\ ble.pc = "connected")
         => (ble'.pc = "connected" /\ ble'.running)]_vars

\* C27: ble_connected is true only while a session is established: when no
\* loop is running or the loop is in its backoff, ble_connected is False,
\* so the Start gate admits nobody without a live session.
C27_ConnectedMeansSession ==
    ble.pc \in {"none", "done", "crashed", "backoff"} => ~ble_connected

C29_HeartRateAloneDecides ==
    (alarm_fresh /\ IsFloat(data["heart_rate"]))
       => LET hr == Float(data["heart_rate"])
              low == hr < alarm_thresholds["heart_rate_low"]
              high == hr > alarm_thresholds["heart_rate_high"]
          IN /\ low => LowHR \in alarms
             /\ (high /\ ~low) => HighHR \in alarms

====
